---- MODULE Spec2Model ----
(***************************************************************************)
(* Token lifecycle and per-user send pacing of the twitter-mcp server.     *)
(*                                                                         *)
(* The server is a single-threaded event loop: every action below is one   *)
(* run-to-completion slice of a request handler, from the resumption of    *)
(* one await to the next await that really suspends (a timer or an         *)
(* outbound network call).  All Date.now() reads of one slice return now.  *)
(* Times are in milliseconds, delays and expires_in in seconds.            *)
(***************************************************************************)
EXTENDS Integers, Sequences, FiniteSets, TLC

\* ------------------------------------------------------------------ bounds
MaxThread == 2
MaxTicks == 2
TickMs == 500
MaxImages == 5
MaxVideos == 2

\* ------------------------------------------------------- program constants
ONE_HOUR_MS == 3600
MIN_DELAY_SECONDS == 1
MAX_DELAY_SECONDS == 5
MsPerSecond == 1000
ImageLimit == 4
VideoLimit == 1

\* ------------------------------------------------------------ input values
Absent == "<undefined>"
NoValue == 0 - 1
\* headers.access_token, the access token the caller puts in its headers
HeaderAccessToken == 0 - 2

HeaderToken == 0
CallerReply == 99
NoId == 0
Identities ==
    {<<"u1", "s1">>, <<"u2", "s1">>, <<Absent, Absent>>, <<"u1", "s1:x">>, <<"u1:s1", "x">>}
ExpiresInValues == {NoValue, 0, 1}
AbsentUrl == <<Absent>>
NoUrl == << >>
UrlDev == <<"https://", "omnimcp-be", "-dev", ".host/update">>
UrlProd == <<"https://", "omnimcp-be", ".host/update">>
UrlOther == <<"https://", "config", ".host/update">>
UrlEnvDev == <<"https://", "env-dev", ".host/update">>
UrlEnvProd == <<"https://", "env-prod", ".host/update">>
HeaderUrls == {AbsentUrl, UrlDev, UrlProd, UrlOther}
EnvValues == {[dev |-> NoUrl, prod |-> NoUrl], [dev |-> UrlEnvDev, prod |-> UrlEnvProd]}

\* the tool invocations that can be in flight together
Reqs == {1, 2}

\* -------------------------------------------------------------- pure code
\* `${userId}:${serverId}`: a missing header prints as "undefined".
Str(x) == IF x = Absent THEN "undefined" ELSE x

cacheKey(userId, serverId) == Str(userId) \o ":" \o Str(serverId)

CacheKeys == {cacheKey(id[1], id[2]) : id \in Identities}

\* JavaScript truthiness of a header string / of a number
Truthy(x) == x # Absent /\ x # ""

Falsy(n) == n = NoValue \/ n = 0

\* Math.ceil(ms / 1000) for an integer ms
CeilSeconds(ms) == (ms + MsPerSecond - 1) \div MsPerSecond

Max(a, b) == IF a >= b THEN a ELSE b

Min(a, b) == IF a <= b THEN a ELSE b

None == [present |-> FALSE]

\* generateRandomDelay: Math.floor(Math.random() * (MAX - MIN + 1)) + MIN, Math.random() in [0,1)
generateRandomDelayWide == MIN_DELAY_SECONDS..(MAX_DELAY_SECONDS + 1)

generateRandomDelay == MIN_DELAY_SECONDS..MAX_DELAY_SECONDS

\* setUserNextSendTime: the entry written for a delay at time t
DelayEntry(t, delaySeconds) ==
    [present |-> TRUE, nextSendTime |-> t + delaySeconds * MsPerSecond,
     delaySeconds |-> delaySeconds]

setUserNextSendTimeMerged(dc, userId, serverId, delaySeconds, t) ==
    LET key == cacheKey(userId, serverId) IN
    IF dc[key].present /\ dc[key].nextSendTime >= DelayEntry(t, delaySeconds).nextSendTime
    THEN dc
    ELSE [dc EXCEPT ![key] = DelayEntry(t, delaySeconds)]

setUserNextSendTime(dc, userId, serverId, delaySeconds, t) ==
    [dc EXCEPT ![cacheKey(userId, serverId)] = DelayEntry(t, delaySeconds)]

\* checkUserCanSend: {canSend, waitTime}
checkUserCanSendFloor(dc, userId, serverId, t) ==
    LET delayInfo == dc[cacheKey(userId, serverId)] IN
    IF ~delayInfo.present THEN [canSend |-> TRUE, waitTime |-> NoValue, gate |-> 0]
    ELSE IF t >= delayInfo.nextSendTime
         THEN [canSend |-> TRUE, waitTime |-> NoValue, gate |-> delayInfo.nextSendTime]
         ELSE [canSend |-> FALSE,
               waitTime |-> Max(0, (delayInfo.nextSendTime - t) \div MsPerSecond),
               gate |-> delayInfo.nextSendTime]

checkUserCanSendOpen(dc, userId, serverId, t) ==
    LET delayInfo == dc[cacheKey(userId, serverId)] IN
    [canSend |-> TRUE, waitTime |-> NoValue,
     gate |-> IF delayInfo.present THEN delayInfo.nextSendTime ELSE 0]

checkUserCanSendStrict(dc, userId, serverId, t) ==
    LET delayInfo == dc[cacheKey(userId, serverId)] IN
    IF ~delayInfo.present \/ t < delayInfo.nextSendTime
    THEN [canSend |-> FALSE, waitTime |-> MIN_DELAY_SECONDS,
          gate |-> IF delayInfo.present THEN delayInfo.nextSendTime ELSE 0]
    ELSE [canSend |-> TRUE, waitTime |-> NoValue, gate |-> delayInfo.nextSendTime]

checkUserCanSend(dc, userId, serverId, t) ==
    LET delayInfo == dc[cacheKey(userId, serverId)] IN
    IF ~delayInfo.present THEN [canSend |-> TRUE, waitTime |-> NoValue, gate |-> 0]
    ELSE IF t >= delayInfo.nextSendTime
         THEN [canSend |-> TRUE, waitTime |-> NoValue, gate |-> delayInfo.nextSendTime]
         ELSE [canSend |-> FALSE,
               waitTime |-> Max(0, CeilSeconds(delayInfo.nextSendTime - t)),
               gate |-> delayInfo.nextSendTime]

\* clearUserDelay / clearUserTokenCache: `delete obj[key]` and its result
DeleteKey(cache, key) == [cache EXCEPT ![key] = None]

\* the value of `delete obj[key]` on a plain object: true when the property was
\* removed and true when there was no such property
DeleteReturns(cache, key) == TRUE

\* clearUserTokenCache / clearUserDelay: the `deleted` they return
clearUserTokenCacheDeleted(tc, userId, serverId) ==
    DeleteReturns(tc, cacheKey(userId, serverId))

clearUserDelayDeleted(dc, userId, serverId) ==
    DeleteReturns(dc, cacheKey(userId, serverId))

\* String.prototype.includes / replace (first occurrence) on a tokenised URL
IndexOf(s, p) ==
    LET hits == {i \in 1..(Len(s) - Len(p) + 1) : SubSeq(s, i, i + Len(p) - 1) = p}
    IN IF hits = {} THEN 0 ELSE CHOOSE i \in hits : \A j \in hits : i <= j

Includes(s, p) == IndexOf(s, p) # 0

Replace(s, p, q) ==
    LET i == IndexOf(s, p) IN
    IF i = 0 THEN s
    ELSE SubSeq(s, 1, i - 1) \o q \o SubSeq(s, i + Len(p), Len(s))

PatDev == <<"omnimcp-be", "-dev">>
PatProd == <<"omnimcp-be">>

\* oauth2.ts: extraUpdateConfig, the sibling of the supplied URL
SiblingUrl(updateConfigUrl) ==
    IF Includes(updateConfigUrl, PatDev)
    THEN Replace(updateConfigUrl, PatDev, PatProd)
    ELSE Replace(updateConfigUrl, PatProd, PatDev)

\* x || y on URL strings
OrUrl(x, y) == IF x = NoUrl THEN y ELSE x

\* the two targets of Promise.all([update_config_prod(...), update_config_prod(...)])
ConfigTargets(env, updateConfigUrl) ==
    <<OrUrl(env.dev, updateConfigUrl), OrUrl(env.prod, SiblingUrl(updateConfigUrl))>>

\* expires_at of the entry getUserClient writes: now + (expires_in || ONE_HOUR_MS) * 1000
ExpiresAt(t, expires_in) ==
    t + (IF Falsy(expires_in) THEN ONE_HOUR_MS ELSE expires_in) * MsPerSecond

\* cachedToken && cachedToken.expires_at > now
CacheUsableInverted(entry, t) == entry.present /\ entry.expires_at < t

CacheUsable(entry, t) == entry.present /\ entry.expires_at > t


\* clearUserTokenCache: delete tokenCache[cacheKey]
clearUserTokenCacheExpire(tc, userId, serverId) ==
    LET key == cacheKey(userId, serverId) IN
    IF tc[key].present THEN [tc EXCEPT ![key].expires_at = 0] ELSE tc

clearUserTokenCache(tc, userId, serverId) == DeleteKey(tc, cacheKey(userId, serverId))

\* getUserTokenCacheStatus: the cache_status that /get_token_cache answers at time t
getUserTokenCacheStatus(tc, userId, serverId, t) ==
    LET entry == tc[cacheKey(userId, serverId)] IN
    IF ~entry.present
    THEN [exists |-> FALSE]
    ELSE [exists |-> TRUE, expires_at |-> entry.expires_at,
          is_expired |-> entry.expires_at <= t]

\* ------------------------------------------------------------------ state
VARIABLES
    now,            \* Date.now()
    tokenCache,     \* const tokenCache: Record<string, TokenCacheEntry>
    userDelayCache, \* const userDelayCache: Record<string, UserDelayInfo>
    req,            \* the tool invocations in flight: their headers, locals and position
    env,            \* process.env.DEV_OMNIMCP_BE_URL / PROD_OMNIMCP_BE_URL
    configStore,    \* the external account-configuration services, per URL and identity
    cfgInFlight,    \* axios.post calls of update_config_prod that have not settled
    issued,         \* tokens the platform has issued so far
    nextTweetId,    \* identifiers the platform has handed out so far
    inputs          \* the requests the environment may send: fixed at start-up

vars == <<now, tokenCache, userDelayCache, req, env, inputs, configStore, cfgInFlight,
          issued, nextTweetId>>

\* the shapes of one tweet argument that matter to the handlers
\* (text valid or not, reply_to_tweet_id, length of images, length of videos)
Shapes == {[valid |-> v, reply |-> rp, images |-> im, videos |-> 0] :
              v \in BOOLEAN, rp \in {0, CallerReply}, im \in {0, 1}}

MediaShapes == {[valid |-> TRUE, reply |-> 0, images |-> im, videos |-> vd] :
                   im \in 0..MaxImages, vd \in 0..MaxVideos}

InvalidShape == [valid |-> FALSE, reply |-> 0, images |-> 0, videos |-> 0]

\* handleUploadMedia: images.slice(0, 4) then videos.slice(0, 1), in this order
UploadPlanNoSlice(shape) ==
    [k \in 1..shape.images |-> <<"image", k>>]
        \o [k \in 1..shape.videos |-> <<"video", k>>]

UploadPlan(shape) ==
    [k \in 1..Min(shape.images, ImageLimit) |-> <<"image", k>>]
        \o [k \in 1..Min(shape.videos, VideoLimit) |-> <<"video", k>>]

PostErrors == {"RateLimitExceeded", "PlatformError"}

\* the errors thrown as McpError, and those thrown as TwitterError by
\* TwitterClient.handleApiError / checkRateLimit
McpErrors == {"InvalidParams", "InvalidParams: Invalid media", "AuthenticationFailure"}

TwitterErrors == PostErrors

\* TwitterError.isRateLimit: error.code === 'rate_limit_exceeded'
isRateLimit(err) == err \in TwitterErrors /\ err = "RateLimitExceeded"

\* handleError: what the CallToolRequest handler answers for a caught error, a text
\* result that is returned or an McpError that is thrown
handleError(err) ==
    IF err \in McpErrors THEN [thrown |-> TRUE, text |-> err]
    ELSE IF err \in TwitterErrors
         THEN IF isRateLimit(err)
              THEN [thrown |-> FALSE, text |-> "Rate limit exceeded"]
              ELSE [thrown |-> FALSE, text |-> "Twitter API error"]
    ELSE [thrown |-> TRUE, text |-> "InternalError"]

NoResp == [access_token |-> NoValue, expires_in |-> NoValue, refresh_token |-> NoValue]

IdleReq ==
    [pc |-> "idle", tool |-> "none", user |-> Absent, server |-> Absent,
     hdrRT |-> HeaderToken, url |-> AbsentUrl, n |-> 0, i |-> 0,
     shape |-> InvalidShape, wakeAt |-> 0, t0 |-> 0, phase |-> "none",
     client |-> NoValue, resp |-> NoResp, cfgOk |-> 0, presented |-> NoValue,
     replyUsed |-> 0, tweetIds |-> << >>, parents |-> << >>, err |-> "none",
     refreshes |-> 0, resolves |-> 0, gateSeen |-> 0, issuedAt |-> 0,
     up |-> 0, mediaIds |-> << >>, tried |-> << >>, invalidated |-> FALSE]

TargetUrls ==
    UNION {{ConfigTargets(e, u)[1], ConfigTargets(e, u)[2]} :
              e \in EnvValues, u \in HeaderUrls \ {AbsentUrl}}

InitWith(in) ==
    /\ inputs = in
    /\ now = 0
    /\ tokenCache = [k \in CacheKeys |-> None]
    /\ userDelayCache = [k \in CacheKeys |-> None]
    /\ req = [r \in Reqs |-> IdleReq]
    /\ env \in in.envs
    /\ configStore = [u \in TargetUrls |-> [id \in Identities |-> NoValue]]
    /\ cfgInFlight = {}
    /\ issued = 0
    /\ nextTweetId = 0

\* ---------------------------------------------- run-to-completion slices
\* A world w = [tc, dc, rq] is the token cache, the delay cache and the locals of
\* the request the slice belongs to; each operator is the code from one point
\* to the next await that suspends.
KeyOf(rq) == cacheKey(rq.user, rq.server)

\* locals that are dead once a slice has used them are put back to their defaults
Scratch(rq) ==
    [rq EXCEPT !.wakeAt = 0, !.t0 = 0, !.resp = NoResp, !.cfgOk = 0,
               !.presented = NoValue, !.issuedAt = 0, !.replyUsed = 0,
               !.up = 0, !.mediaIds = << >>, !.tried = << >>, !.invalidated = FALSE]

Fail(w, kind) ==
    [w EXCEPT !.rq = [Scratch(w.rq) EXCEPT !.pc = "failed", !.err = kind,
                                            !.shape = InvalidShape]]

\* handleOncePostTweet: client.postTweet(text, reply_to_tweet_id, mediaIds) is sent
IssuePost(w, t) ==
    [w EXCEPT !.rq.pc = "post", !.rq.issuedAt = t, !.rq.replyUsed = w.rq.shape.reply]

\* handleOncePostTweet after handleUploadMedia returned mediaIds
AfterUploadsNoCheck(w, t) == IssuePost(w, t)

AfterUploads(w, t) ==
    IF (w.rq.shape.images > 0 \/ w.rq.shape.videos > 0) /\ Len(w.rq.mediaIds) = 0
    THEN Fail(w, "InvalidParams: Invalid media")
    ELSE IssuePost(w, t)

\* handleUploadMedia: this.uploadMedia of the item at position up returned an id
\* (ok) or threw, which the loop catches to go on with the next item
UploadSettledAbort(w, t, ok) ==
    LET plan == UploadPlan(w.rq.shape)
        item == plan[w.rq.up]
        w1 == [w EXCEPT !.rq.tried = Append(@, [item |-> item, ok |-> ok]),
                        !.rq.mediaIds = IF ok THEN Append(@, item) ELSE @]
    IN IF ok /\ w.rq.up < Len(plan)
       THEN [w1 EXCEPT !.rq.up = @ + 1]
       ELSE AfterUploads(w1, t)

UploadSettled(w, t, ok) ==
    LET plan == UploadPlan(w.rq.shape)
        item == plan[w.rq.up]
        w1 == [w EXCEPT !.rq.tried = Append(@, [item |-> item, ok |-> ok]),
                        !.rq.mediaIds = IF ok THEN Append(@, item) ELSE @]
    IN IF w.rq.up < Len(plan)
       THEN [w1 EXCEPT !.rq.up = @ + 1]
       ELSE AfterUploads(w1, t)

\* after `await this.getUserClient(args, headers)` has a client
AfterClientNoValidate(w, t) ==
    IF w.rq.phase = "final"
    THEN [w EXCEPT !.rq = [Scratch(w.rq) EXCEPT !.pc = "profile", !.shape = InvalidShape]]
    ELSE IF UploadPlan(w.rq.shape) # << >> THEN [w EXCEPT !.rq.pc = "media", !.rq.up = 1]
    ELSE AfterUploads(w, t)

AfterClient(w, t) ==
    IF w.rq.phase = "final"
    THEN [w EXCEPT !.rq = [Scratch(w.rq) EXCEPT !.pc = "profile", !.shape = InvalidShape]]
    ELSE IF ~w.rq.shape.valid THEN Fail(w, "InvalidParams")
    ELSE IF UploadPlan(w.rq.shape) # << >> THEN [w EXCEPT !.rq.pc = "media", !.rq.up = 1]
    ELSE AfterUploads(w, t)

\* getUserClient up to the client or to the fetch of the token endpoint
getUserClient(w, t, phase) ==
    LET cachedToken == w.tc[KeyOf(w.rq)] IN
    IF CacheUsable(cachedToken, t)
    THEN AfterClient([w EXCEPT !.rq.client = cachedToken.access_token,
                               !.rq.phase = phase, !.rq.resolves = @ + 1], t)
    ELSE [w EXCEPT !.rq.pc = "token", !.rq.t0 = t, !.rq.phase = phase,
                   !.rq.resolves = @ + 1, !.rq.refreshes = @ + 1,
                   !.rq.client = HeaderAccessToken,
                   !.rq.presented = w.rq.hdrRT, !.rq.cfgOk = 0]

\* handleOncePostTweet from its entry
handleOncePostTweetNoWait(w, t) ==
    IF Truthy(w.rq.user) /\ Truthy(w.rq.server)
    THEN LET canSendCheck == checkUserCanSend(w.dc, w.rq.user, w.rq.server, t)
         IN getUserClient([w EXCEPT !.rq.gateSeen = canSendCheck.gate], t, "once")
    ELSE getUserClient([w EXCEPT !.rq.gateSeen = 0], t, "once")

handleOncePostTweet(w, t) ==
    IF Truthy(w.rq.user) /\ Truthy(w.rq.server)
    THEN LET canSendCheck == checkUserCanSend(w.dc, w.rq.user, w.rq.server, t)
             waitTime == IF Falsy(canSendCheck.waitTime) THEN 0 ELSE canSendCheck.waitTime
         IN IF ~canSendCheck.canSend
            THEN [w EXCEPT !.rq.pc = "waiting", !.rq.gateSeen = canSendCheck.gate,
                           !.rq.wakeAt = t + waitTime * MsPerSecond]
            ELSE getUserClient([w EXCEPT !.rq.gateSeen = canSendCheck.gate], t, "once")
    ELSE getUserClient([w EXCEPT !.rq.gateSeen = 0], t, "once")

\* src/index.ts, the build without pacing: handleOncePostTweet from its entry
handleOncePostTweetPlain(w, t) == getUserClient([w EXCEPT !.rq.gateSeen = 0], t, "once")

\* this.handleOncePostTweet(args, headers) of the build that is deployed
PostOnce(w, t) ==
    IF inputs.build = "plain" THEN handleOncePostTweetPlain(w, t)
    ELSE handleOncePostTweet(w, t)

\* getUserClient after OAuth2Helper.refreshToken threw: McpError(401, auth failed)
RefreshFailedRetry(w, t) == [w EXCEPT !.rq.refreshes = @ + 1]

RefreshFailedEvicts(w, t) ==
    Fail([w EXCEPT !.tc = DeleteKey(w.tc, KeyOf(w.rq))], "AuthenticationFailure")

RefreshFailed(w, t) == Fail(w, "AuthenticationFailure")

\* getUserClient after `await OAuth2Helper.refreshToken(...)` returned refreshedToken
CacheEntryAtReturn(rq, t) ==
    [present |-> TRUE, access_token |-> rq.resp.access_token,
     expires_at |-> ExpiresAt(t, rq.resp.expires_in),
     refresh_token |-> rq.resp.refresh_token]

CacheEntry(rq, t) ==
    [present |-> TRUE, access_token |-> rq.resp.access_token,
     expires_at |-> ExpiresAt(rq.t0, rq.resp.expires_in),
     refresh_token |-> rq.resp.refresh_token]

AfterRefreshNoStore(w, t) ==
    AfterClient([w EXCEPT !.rq.client = w.rq.resp.access_token,
                          !.rq.t0 = 0, !.rq.resp = NoResp, !.rq.cfgOk = 0, !.rq.invalidated = FALSE,
                          !.rq.presented = NoValue], t)

AfterRefreshKeepFirst(w, t) ==
    LET cachedToken == w.tc[KeyOf(w.rq)] IN
    IF CacheUsable(cachedToken, t)
    THEN AfterClient([w EXCEPT !.rq.client = cachedToken.access_token,
                               !.rq.t0 = 0, !.rq.resp = NoResp, !.rq.cfgOk = 0, !.rq.invalidated = FALSE,
                               !.rq.presented = NoValue], t)
    ELSE AfterClient([w EXCEPT !.tc[KeyOf(w.rq)] = CacheEntry(w.rq, t),
                               !.rq.client = w.rq.resp.access_token,
                               !.rq.t0 = 0, !.rq.resp = NoResp, !.rq.cfgOk = 0, !.rq.invalidated = FALSE,
                               !.rq.presented = NoValue], t)

AfterRefreshHeaderToken(w, t) ==
    AfterClient([w EXCEPT !.tc[KeyOf(w.rq)] = CacheEntry(w.rq, t),
                          !.rq.t0 = 0, !.rq.resp = NoResp, !.rq.cfgOk = 0,
                          !.rq.invalidated = FALSE, !.rq.presented = NoValue], t)

AfterRefresh(w, t) ==
    AfterClient([w EXCEPT !.tc[KeyOf(w.rq)] = CacheEntry(w.rq, t),
                          !.rq.client = w.rq.resp.access_token,
                          !.rq.t0 = 0, !.rq.resp = NoResp, !.rq.cfgOk = 0, !.rq.invalidated = FALSE,
                          !.rq.presented = NoValue], t)

\* handleOncePostTweet after postTweet threw: the catch rethrows
PostFailedPenalised(w, t, kind) ==
    Fail([w EXCEPT !.dc = setUserNextSendTime(w.dc, w.rq.user, w.rq.server,
                                               MIN_DELAY_SECONDS, t)], kind)

PostFailedSwallowed(w, t, kind) ==
    getUserClient([w EXCEPT !.rq = [Scratch(w.rq) EXCEPT !.tweetIds = Append(@, NoId),
                                                         !.parents = Append(@, w.rq.replyUsed)]],
                  t, "final")

PostFailed(w, t, kind) == Fail(w, kind)

\* handleOncePostTweet after postTweet returned tweet.id, then the caller's next step
PostSucceededKeepReply(w, t, id, delaySeconds, nextShape) ==
    LET w1 == [w EXCEPT !.rq = [Scratch(w.rq) EXCEPT
                                  !.tweetIds = Append(@, id),
                                  !.parents = Append(@, w.rq.replyUsed)],
                        !.dc = setUserNextSendTime(w.dc, w.rq.user, w.rq.server,
                                                   delaySeconds, t)]
    IN IF w.rq.tool = "post_tweet_thread" /\ w.rq.i < w.rq.n
       THEN handleOncePostTweet([w1 EXCEPT !.rq.i = @ + 1, !.rq.shape = nextShape], t)
       ELSE getUserClient(w1, t, "final")

PostSucceeded(w, t, id, delaySeconds, nextShape) ==
    LET w1 == [w EXCEPT !.rq = [Scratch(w.rq) EXCEPT
                                  !.tweetIds = Append(@, id),
                                  !.parents = Append(@, w.rq.replyUsed)],
                        !.dc = setUserNextSendTime(w.dc, w.rq.user, w.rq.server,
                                                   delaySeconds, t)]
    IN IF w.rq.tool = "post_tweet_thread" /\ w.rq.i < w.rq.n
       THEN handleOncePostTweet(
                [w1 EXCEPT !.rq.i = @ + 1,
                           !.rq.shape = [nextShape EXCEPT !.reply = id]], t)
       ELSE getUserClient(w1, t, "final")

\* src/index.ts: handleOncePostTweet after postTweet settled. Its catch only logs, so
\* a failed post returns tweetId '' (NoId) like a success returns tweet.id; then the
\* caller's next step: the loop of handlePostTweetThread or the profile lookup
PostReturnedPlain(w, t, id, nextShape) ==
    LET w1 == [w EXCEPT !.rq = [Scratch(w.rq) EXCEPT
                                  !.tweetIds = Append(@, id),
                                  !.parents = Append(@, w.rq.replyUsed)]]
    IN IF w.rq.tool = "post_tweet_thread" /\ w.rq.i < w.rq.n
       THEN handleOncePostTweetPlain(
                [w1 EXCEPT !.rq.i = @ + 1,
                           !.rq.shape = IF id # NoId THEN [nextShape EXCEPT !.reply = id]
                                        ELSE nextShape], t)
       ELSE getUserClient(w1, t, "final")

World(r) == [tc |-> tokenCache, dc |-> userDelayCache, rq |-> req[r]]

Commit(r, w) ==
    /\ tokenCache' = w.tc
    /\ userDelayCache' = w.dc
    /\ req' = [req EXCEPT ![r] = w.rq]


\* handlePostTweetThread up to its first await, with the per-tweet checks left
\* to handleOncePostTweet
handlePostTweetThreadLazy(w, call, shape, t) ==
    IF call.n = 0 THEN getUserClient(w, t, "final")
    ELSE PostOnce([w EXCEPT !.rq.i = 1, !.rq.shape = shape], t)

\* handlePostTweetThread up to its first await: PostTweetThreadSchema.safeParse(args)
\* checks the whole tweets array; an empty array never runs the loop body
handlePostTweetThread(w, call, shape, t) ==
    IF ~call.valid THEN Fail(w, "InvalidParams")
    ELSE IF call.n = 0 THEN getUserClient(w, t, "final")
    ELSE PostOnce([w EXCEPT !.rq.i = 1, !.rq.shape = shape], t)

\* -------------------------------------------------------------- actions
\* the refresh tokens a caller can put in its twitter_refresh_token header:
\* the one it was first given, or one it read back from a configuration store
HeaderRTs(id) == {HeaderToken} \cup ({configStore[u][id] : u \in TargetUrls} \ {NoValue})

\* CallToolRequest handler: handlePostTweet / handlePostTweetThread from their entry
Start(r) ==
    /\ req[r].pc = "idle"
    /\ r \in inputs.slots
    /\ \E call \in inputs.calls, id \in inputs.ids, url \in inputs.urls,
          shape \in inputs.shapes \cup {InvalidShape} :
         \E rt \in HeaderRTs(id) :
           LET rq0 == [IdleReq EXCEPT !.tool = call.tool, !.user = id[1],
                                      !.server = id[2], !.hdrRT = rt, !.url = url,
                                      !.n = call.n]
               w0 == [tc |-> tokenCache, dc |-> userDelayCache, rq |-> rq0]
           IN \/ /\ call.tool = "post_tweet"
                 /\ shape.valid = call.valid
                 /\ Commit(r, PostOnce([w0 EXCEPT !.rq.i = 1, !.rq.shape = shape], now))
              \/ /\ call.tool = "post_tweet_thread"
                 /\ IF call.valid /\ call.n > 0 THEN shape.valid ELSE shape = InvalidShape
                 /\ Commit(r, handlePostTweetThread(w0, call, shape, now))
    /\ UNCHANGED <<now, env, inputs, configStore, cfgInFlight, issued, nextTweetId>>

\* bluebird.delay(waitTime * 1000) fires; the handler goes on to getUserClient
Resume(r) ==
    /\ req[r].pc = "waiting"
    /\ now >= req[r].wakeAt
    /\ Commit(r, getUserClient(World(r), now, "once"))
    /\ UNCHANGED <<now, env, inputs, configStore, cfgInFlight, issued, nextTweetId>>

\* the axios.post calls update_config_prod starts for one refresh
ConfigCalls(r, rq, e) ==
    {[owner |-> r, gen |-> rq.refreshes, slot |-> k, url |-> ConfigTargets(e, rq.url)[k],
      user |-> rq.user, server |-> rq.server, rt |-> rq.resp.refresh_token] : k \in {1, 2}}

\* OAuth2Helper.refreshToken: the token endpoint answers
TokenResponse(r) ==
    /\ req[r].pc = "token"
    /\ \/ \* !response.ok, or fetch rejected: refreshToken throws, getUserClient's catch
          \* turns it into McpError(401)
          /\ Commit(r, RefreshFailed(World(r), now))
          /\ UNCHANGED <<issued, cfgInFlight>>
       \/ \E expires_in \in inputs.expires, rotated \in inputs.rotations :
            LET tok == issued + 1
                result == [access_token |-> tok, expires_in |-> expires_in,
                           refresh_token |-> IF rotated THEN tok ELSE NoValue]
                w == [World(r) EXCEPT !.rq.resp = result]
            IN /\ issued' = tok
               /\ IF w.rq.url = AbsentUrl
                  THEN \* undefined.includes(...) throws a TypeError outside the try;
                       \* the answer of the token endpoint is dropped with it
                       /\ Commit(r, [RefreshFailed(w, now) EXCEPT !.rq.resp = result])
                       /\ UNCHANGED cfgInFlight
                  ELSE /\ Commit(r, [w EXCEPT !.rq.pc = "config"])
                       /\ cfgInFlight' = cfgInFlight \cup ConfigCalls(r, w.rq, env)
    /\ UNCHANGED <<now, env, inputs, configStore, nextTweetId>>

\* update_config_prod: one axios.post settles
ConfigSettleNewest(m, ok) ==
    /\ m \in cfgInFlight
    /\ cfgInFlight' = cfgInFlight \ {m}
    /\ configStore' = IF ok /\ m.rt # NoValue /\ m.rt > configStore[m.url][<<m.user, m.server>>]
                      THEN [configStore EXCEPT ![m.url][<<m.user, m.server>>] = m.rt]
                      ELSE configStore
    /\ LET rq == req[m.owner]
           awaited == rq.pc = "config" /\ rq.refreshes = m.gen
       IN IF awaited /\ (~ok \/ rq.cfgOk = 1)
          THEN Commit(m.owner, AfterRefresh(World(m.owner), now))
          ELSE IF awaited
          THEN /\ req' = [req EXCEPT ![m.owner].cfgOk = 1]
               /\ UNCHANGED <<tokenCache, userDelayCache>>
          ELSE UNCHANGED <<tokenCache, userDelayCache, req>>
    /\ UNCHANGED <<now, env, inputs, issued, nextTweetId>>

\* update_config_prod: one axios.post settles; Promise.all settles with it when it
\* is the first rejection or the last fulfilment
ConfigSettle(m, ok) ==
    /\ m \in cfgInFlight
    /\ cfgInFlight' = cfgInFlight \ {m}
    /\ configStore' = IF ok /\ m.rt # NoValue
                      THEN [configStore EXCEPT ![m.url][<<m.user, m.server>>] = m.rt]
                      ELSE configStore
    /\ LET rq == req[m.owner]
           awaited == rq.pc = "config" /\ rq.refreshes = m.gen
       IN IF awaited /\ (~ok \/ rq.cfgOk = 1)
          THEN Commit(m.owner, AfterRefresh(World(m.owner), now))
          ELSE IF awaited
          THEN /\ req' = [req EXCEPT ![m.owner].cfgOk = 1]
               /\ UNCHANGED <<tokenCache, userDelayCache>>
          ELSE UNCHANGED <<tokenCache, userDelayCache, req>>
    /\ UNCHANGED <<now, env, inputs, issued, nextTweetId>>

\* handleUploadMedia: the upload of one item settles
MediaDone(r) ==
    /\ req[r].pc = "media"
    /\ \E ok \in BOOLEAN : Commit(r, UploadSettled(World(r), now, ok))
    /\ UNCHANGED <<now, env, inputs, configStore, cfgInFlight, issued, nextTweetId>>

\* client.postTweet settles
PostDone(r) ==
    /\ req[r].pc = "post"
    /\ \E nextShape \in IF req[r].tool = "post_tweet_thread" /\ req[r].i < req[r].n
                          THEN {sh \in inputs.shapes : sh.valid} ELSE {InvalidShape} :
         \/ \E delaySeconds \in generateRandomDelay :
              /\ nextTweetId' = nextTweetId + 1
              /\ Commit(r, IF inputs.build = "plain"
                           THEN PostReturnedPlain(World(r), now, nextTweetId + 1,
                                                  nextShape)
                           ELSE PostSucceeded(World(r), now, nextTweetId + 1,
                                              delaySeconds, nextShape))
         \/ \E kind \in PostErrors :
              /\ Commit(r, IF inputs.build = "plain"
                           THEN PostReturnedPlain(World(r), now, NoId, nextShape)
                           ELSE PostFailed(World(r), now, kind))
              /\ UNCHANGED nextTweetId
    /\ UNCHANGED <<now, env, inputs, configStore, cfgInFlight, issued>>

\* client.getCurrentUser settles; the handler returns its text or throws
ProfileDone(r) ==
    /\ req[r].pc = "profile"
    /\ \/ req' = [req EXCEPT ![r].pc = "done"]
       \/ \E kind \in PostErrors : req' = [req EXCEPT ![r].pc = "failed", ![r].err = kind]
    /\ UNCHANGED <<now, tokenCache, userDelayCache, env, inputs, configStore, cfgInFlight,
                   issued, nextTweetId>>

\* POST /expired_token.  invalidated is history: it marks the requests whose refresh
\* is in flight for the key at the moment its entry is removed
ExpiredToken(user_id, server_id) ==
    /\ Truthy(user_id) /\ Truthy(server_id)
    /\ tokenCache' = clearUserTokenCache(tokenCache, user_id, server_id)
    /\ req' = [r \in Reqs |->
                 IF /\ req[r].pc \in {"token", "config"}
                    /\ KeyOf(req[r]) = cacheKey(user_id, server_id)
                    /\ tokenCache[KeyOf(req[r])].present
                 THEN [req[r] EXCEPT !.invalidated = TRUE] ELSE req[r]]
    /\ UNCHANGED <<now, userDelayCache, env, inputs, configStore, cfgInFlight, issued,
                   nextTweetId>>

\* POST /clear_delay
ClearDelayCancels(user_id, server_id) ==
    /\ Truthy(user_id) /\ Truthy(server_id)
    /\ userDelayCache' = DeleteKey(userDelayCache, cacheKey(user_id, server_id))
    /\ req' = [r \in Reqs |->
                 IF req[r].pc = "waiting" /\ KeyOf(req[r]) = cacheKey(user_id, server_id)
                 THEN [req[r] EXCEPT !.wakeAt = now] ELSE req[r]]
    /\ UNCHANGED <<now, tokenCache, env, inputs, configStore, cfgInFlight, issued,
                   nextTweetId>>

ClearDelay(user_id, server_id) ==
    /\ Truthy(user_id) /\ Truthy(server_id)
    /\ userDelayCache' = DeleteKey(userDelayCache, cacheKey(user_id, server_id))
    /\ UNCHANGED <<now, tokenCache, req, env, inputs, configStore, cfgInFlight, issued,
                   nextTweetId>>

\* the clock advances
Tick ==
    /\ now + TickMs <= MaxTicks * TickMs
    /\ now' = now + TickMs
    /\ UNCHANGED <<tokenCache, userDelayCache, req, env, inputs, configStore, cfgInFlight,
                   issued, nextTweetId>>

Next ==
    \/ \E r \in Reqs : Start(r)
    \/ \E r \in Reqs : Resume(r)
    \/ \E r \in Reqs : TokenResponse(r)
    \/ \E m \in cfgInFlight, ok \in inputs.stores : ConfigSettle(m, ok)
    \/ \E r \in Reqs : MediaDone(r)
    \/ \E r \in Reqs : PostDone(r)
    \/ \E r \in Reqs : ProfileDone(r)
    \/ \E id \in inputs.expired : ExpiredToken(id[1], id[2])
    \/ \E id \in inputs.cleared : ClearDelay(id[1], id[2])
    \/ Tick

\* ------------------------------------------------- bounded environments
NoEnv == [dev |-> NoUrl, prod |-> NoUrl]

Plain == [valid |-> TRUE, reply |-> 0, images |-> 0, videos |-> 0]

WithMedia == [valid |-> TRUE, reply |-> 0, images |-> 1, videos |-> 0]

WithReply == [valid |-> TRUE, reply |-> CallerReply, images |-> 0, videos |-> 0]

PostTweetCall == [tool |-> "post_tweet", n |-> 1, valid |-> TRUE]

ThreadCalls == {[tool |-> "post_tweet_thread", n |-> k, valid |-> v] :
                   k \in 0..MaxThread, v \in BOOLEAN}

\* two callers of one identity posting concurrently, /clear_delay at any time
PacingInputs ==
    [build |-> "paced", slots |-> Reqs, ids |-> {<<"u1", "s1">>}, urls |-> {UrlDev},
     envs |-> {NoEnv}, calls |-> {PostTweetCall}, shapes |-> {Plain, WithMedia},
     expires |-> {NoValue}, rotations |-> {TRUE}, stores |-> {TRUE},
     expired |-> {<<"u2", "s1">>}, cleared |-> {<<"u1", "s1">>}]

\* one caller posting a tweet or a thread of two, every configuration URL and token
\* lifetime, /expired_token and /clear_delay at any time
TokenInputs ==
    [build |-> "paced", slots |-> {1}, ids |-> {<<"u1", "s1">>}, urls |-> HeaderUrls,
     envs |-> EnvValues,
     calls |-> {PostTweetCall, [tool |-> "post_tweet_thread", n |-> 2, valid |-> TRUE]},
     shapes |-> {Plain, WithMedia}, expires |-> ExpiresInValues, rotations |-> BOOLEAN, stores |-> BOOLEAN,
     expired |-> {<<"u1", "s1">>}, cleared |-> {<<"u1", "s1">>}]

\* one caller posting threads and single tweets of every shape, nothing interleaved
ThreadInputs ==
    [build |-> "paced", slots |-> {1}, ids |-> {<<"u1", "s1">>}, urls |-> {UrlDev}, envs |-> {NoEnv},
     calls |-> ThreadCalls \cup {PostTweetCall, [PostTweetCall EXCEPT !.valid = FALSE]},
     shapes |-> Shapes, expires |-> {NoValue, 1}, rotations |-> {TRUE},
     stores |-> {TRUE}, expired |-> {<<"u2", "s1">>}, cleared |-> {<<"u2", "s1">>}]

\* the build of src/index.ts, which has neither pacing nor admin endpoints: one
\* caller posting threads and single tweets
PlainInputs ==
    [build |-> "plain", slots |-> {1}, ids |-> {<<"u1", "s1">>}, urls |-> {UrlDev},
     envs |-> {NoEnv}, calls |-> ThreadCalls \cup {PostTweetCall},
     shapes |-> {Plain, WithReply}, expires |-> {NoValue}, rotations |-> {TRUE},
     stores |-> {TRUE}, expired |-> {}, cleared |-> {}]

\* one caller posting tweets and threads of two with up to MaxImages images and
\* MaxVideos videos
MediaInputs ==
    [build |-> "paced", slots |-> {1}, ids |-> {<<"u1", "s1">>}, urls |-> {UrlDev},
     envs |-> {NoEnv},
     calls |-> {PostTweetCall, [tool |-> "post_tweet_thread", n |-> 2, valid |-> TRUE]},
     shapes |-> MediaShapes, expires |-> {NoValue}, rotations |-> {TRUE},
     stores |-> {TRUE}, expired |-> {<<"u2", "s1">>}, cleared |-> {<<"u2", "s1">>}]

\* two callers whose user_id and server_id differ but print as the same cache key
IdentityInputs ==
    [build |-> "paced", slots |-> Reqs, ids |-> {<<"u1", "s1:x">>, <<"u1:s1", "x">>},
     urls |-> {UrlDev}, envs |-> {NoEnv}, calls |-> {PostTweetCall},
     shapes |-> {Plain, WithMedia}, expires |-> {NoValue}, rotations |-> {FALSE},
     stores |-> {TRUE}, expired |-> {<<"u2", "s1">>}, cleared |-> {<<"u2", "s1">>}]

\* a thread of two and a single post of one identity in flight together,
\* /clear_delay at any time
WaitInputs ==
    [build |-> "paced", slots |-> Reqs, ids |-> {<<"u1", "s1">>}, urls |-> {UrlDev},
     envs |-> {NoEnv},
     calls |-> {PostTweetCall, [tool |-> "post_tweet_thread", n |-> 2, valid |-> TRUE]},
     shapes |-> {Plain, WithMedia}, expires |-> {NoValue}, rotations |-> {FALSE},
     stores |-> {TRUE}, expired |-> {<<"u2", "s1">>}, cleared |-> {<<"u1", "s1">>}]

\* one caller at a time, with or without user_id and server_id in its headers
AnonInputs ==
    [build |-> "paced", slots |-> {1}, ids |-> {<<Absent, Absent>>, <<"u1", "s1">>},
     urls |-> {UrlDev}, envs |-> {NoEnv},
     calls |-> {PostTweetCall, [tool |-> "post_tweet_thread", n |-> 2, valid |-> TRUE]},
     shapes |-> {Plain, WithMedia}, expires |-> {NoValue}, rotations |-> {TRUE},
     stores |-> {TRUE}, expired |-> {<<"u2", "s1">>}, cleared |-> {<<"u2", "s1">>}]

InitPacing == InitWith(PacingInputs)

InitToken == InitWith(TokenInputs)

InitThread == InitWith(ThreadInputs)

SpecPacing == InitPacing /\ [][Next]_vars

SpecToken == InitToken /\ [][Next]_vars

SpecThread == InitThread /\ [][Next]_vars

\* the same server with the scheduling of the event loop: the wall clock advances
\* and a timer that is due fires
SpecThreadFair ==
    /\ InitThread
    /\ [][Next]_vars
    /\ WF_vars(Tick)
    /\ \A r \in Reqs : WF_vars(Resume(r))

InitWait == InitWith(WaitInputs)

SpecWait == InitWait /\ [][Next]_vars

InitAnon == InitWith(AnonInputs)

SpecAnon == InitAnon /\ [][Next]_vars

\* either build of the server
InitBuilds == \E in \in {ThreadInputs, PlainInputs} : InitWith(in)

SpecBuilds == InitBuilds /\ [][Next]_vars

InitMedia == InitWith(MediaInputs)

SpecMedia == InitMedia /\ [][Next]_vars

InitIdentity == InitWith(IdentityInputs)

SpecIdentity == InitIdentity /\ [][Next]_vars

\* ---------------------------------------------------------------- claims
\* request r's platform post call settles with a tweet id in this step
PostSucceeds(r) ==
    /\ req[r].pc = "post"
    /\ Len(req'[r].tweetIds) > Len(req[r].tweetIds)

\* C1 as stated: any two posts of one identity are spaced, that is, a post that
\* succeeds while a nextSendTime is stored for its identity was issued no earlier
\* than that nextSendTime.
C1_AnyTwoPostsSpaced ==
    [][\A r \in Reqs :
         (PostSucceeds(r) /\ userDelayCache[KeyOf(req[r])].present)
            => req[r].issuedAt >= userDelayCache[KeyOf(req[r])].nextSendTime]_vars

\* C1 amended: a request issues its platform post call no earlier than the
\* nextSendTime that was stored for its identity when the request consulted the gate.
C1_PostNotBeforeGateSeen ==
    \A r \in Reqs :
        req[r].pc = "post" => req[r].issuedAt >= req[r].gateSeen

\* a request that found the gate closed, slept and has now issued its post call
C1_Witness ==
    \E r \in Reqs :
        /\ req[r].pc = "post"
        /\ req[r].gateSeen > 0
        /\ req[r].wakeAt >= req[r].gateSeen
        /\ req[r].issuedAt >= req[r].wakeAt

\* C2: after a recordSend the gate refuses with waitSeconds in [1, 5] (the delay
\* just drawn, at the moment of recording), keeps waitSeconds >= 1 exactly while
\* now < nextSendTime, and allows again from nextSendTime on.
C2_GateFollowsRecord ==
    \A id \in Identities :
        LET e == userDelayCache[cacheKey(id[1], id[2])]
            c == checkUserCanSend(userDelayCache, id[1], id[2], now)
        IN e.present =>
             /\ (now < e.nextSendTime) = ~c.canSend
             /\ ~c.canSend => (c.waitTime >= 1 /\ c.waitTime <= 5)
             /\ (now + e.delaySeconds * 1000 = e.nextSendTime)
                   => (~c.canSend /\ c.waitTime = e.delaySeconds)

\* a recorded send whose nextSendTime has been reached: the gate allows again
C2_Witness ==
    \E id \in Identities :
        LET e == userDelayCache[cacheKey(id[1], id[2])]
        IN /\ e.present
           /\ now >= e.nextSendTime
           /\ checkUserCanSend(userDelayCache, id[1], id[2], now).canSend

\* C3: a post whose platform call fails leaves the identity's recorded
\* nextSendTime (the whole delay cache) as it was.
C3_FailedPostKeepsDelay ==
    [][\A r \in Reqs :
         (req[r].pc = "post" /\ req'[r].pc = "failed")
            => userDelayCache' = userDelayCache]_vars

\* a platform post call has failed while a nextSendTime is stored for the identity
C3_Witness ==
    \E r \in Reqs :
        /\ req[r].pc = "failed"
        /\ req[r].err \in PostErrors
        /\ req[r].phase = "once"
        /\ userDelayCache[KeyOf(req[r])].present

\* request r enters getUserClient in this step while the cache holds an entry for
\* its identity whose expires_at is in the future
ResolvesWithValidCache(r) ==
    /\ req'[r].resolves > req[r].resolves
    /\ LET e == tokenCache[KeyOf(req'[r])]
       IN e.present /\ e.expires_at > now

\* C4: with a cached entry whose expires_at is in the future, resolving the
\* credential contacts neither the token endpoint nor a configuration store and
\* the client is built from the cached access token.
C4_ValidCacheNoRefresh ==
    [][\A r \in Reqs :
         ResolvesWithValidCache(r) =>
            /\ req'[r].refreshes = req[r].refreshes
            /\ req'[r].pc # "token"
            /\ issued' = issued
            /\ cfgInFlight' = cfgInFlight
            /\ req'[r].client = tokenCache[KeyOf(req'[r])].access_token]_vars

\* a post whose second credential resolution was served from the cache
C4_Witness ==
    \E r \in Reqs :
        /\ req[r].pc = "profile"
        /\ req[r].resolves = 2
        /\ req[r].refreshes = 1
        /\ req[r].client = tokenCache[KeyOf(req[r])].access_token

RefreshReturns(r) == req[r].pc = "config" /\ req'[r].pc # "config"

\* C6 as stated: the entry written after a refresh expires expires_in seconds
\* after the time it is written, and 3600 seconds after it exactly when the
\* response has no expires_in.
C6_ExpiryFromPopulateTime ==
    [][\A r \in Reqs :
         RefreshReturns(r) =>
            LET e == tokenCache'[KeyOf(req[r])]
                x == req[r].resp.expires_in
            IN /\ e.present
               /\ e.expires_at = now + (IF x = NoValue THEN 3600 ELSE x) * 1000]_vars

\* C6 amended: the entry expires expires_in seconds after the time getUserClient
\* read the clock before calling the refresh, and 3600 seconds after it when the
\* response has no expires_in or an expires_in of 0.
C6_ExpiryFromTimeBeforeRefresh ==
    [][\A r \in Reqs :
         RefreshReturns(r) =>
            LET e == tokenCache'[KeyOf(req[r])]
                x == req[r].resp.expires_in
            IN /\ e.present
               /\ req[r].t0 <= now
               /\ e.expires_at = req[r].t0 + (IF x \in {NoValue, 0} THEN 3600 ELSE x) * 1000
               /\ e.access_token = req[r].resp.access_token]_vars

\* a refresh started at time 0 returned later, and the request went straight on to
\* its post call: the entry still counts its hour from time 0
C6_Witness ==
    \E r \in Reqs :
        /\ req[r].pc = "post"
        /\ req[r].shape.images = 0
        /\ req[r].resolves = 1
        /\ req[r].refreshes = 1
        /\ req[r].wakeAt = 0
        /\ req[r].issuedAt > 0
        /\ tokenCache[KeyOf(req[r])].present
        /\ tokenCache[KeyOf(req[r])].expires_at = 3600 * 1000

\* the token endpoint answers the refresh of request r with success in this step
TokenEndpointSucceeds(r) == req[r].pc = "token" /\ issued' = issued + 1

\* C7: once the token endpoint has answered with success the refresh returns the
\* token: neither that step nor the settling of the propagation calls makes the
\* request fail with an authentication failure.
C7_RefreshReturnsToken ==
    [][\A r \in Reqs :
         (TokenEndpointSucceeds(r) \/ RefreshReturns(r))
            => ~(req'[r].pc = "failed" /\ req'[r].err = "AuthenticationFailure")]_vars

\* C8: a successful refresh that yields a new refresh token starts exactly two
\* propagation calls, to the supplied URL and to its sibling (or their overrides),
\* both carrying the new refresh token.
C8_TwoPropagationCalls ==
    [][\A r \in Reqs :
         (TokenEndpointSucceeds(r) /\ req'[r].resp.refresh_token # NoValue) =>
            LET started == cfgInFlight' \ cfgInFlight
            IN /\ Cardinality(started) = 2
               /\ \E m \in started : m.slot = 1 /\ m.url = OrUrl(env.dev, req[r].url)
               /\ \E m \in started :
                     m.slot = 2 /\ m.url = OrUrl(env.prod, SiblingUrl(req[r].url))
               /\ \A m \in started : m.rt = req'[r].resp.refresh_token]_vars

\* C9: a refresh made while the cache holds a refresh token issued earlier for the
\* identity presents that token to the token endpoint.
C9_PresentsStoredRefreshToken ==
    [][\A r \in Reqs :
         req'[r].refreshes > req[r].refreshes =>
            LET e == tokenCache[KeyOf(req'[r])]
            IN (e.present /\ e.refresh_token # NoValue)
                  => req'[r].presented = e.refresh_token]_vars

\* C10: a thread's tweets are posted in input order, every tweet after the first as
\* a reply to the identifier its predecessor produced, and a thread of n tweets that
\* all succeed ends with n identifiers.
C10_ThreadChained ==
    \A r \in Reqs :
        LET rq == req[r]
        IN rq.tool = "post_tweet_thread" =>
             /\ Len(rq.tweetIds) <= rq.n
             /\ Len(rq.parents) = Len(rq.tweetIds)
             /\ \A i \in 2..Len(rq.tweetIds) :
                   /\ rq.parents[i] = rq.tweetIds[i - 1]
                   /\ rq.tweetIds[i] > rq.tweetIds[i - 1]
             /\ rq.pc = "post" =>
                   /\ rq.i = Len(rq.tweetIds) + 1
                   /\ rq.i > 1 => rq.replyUsed = rq.tweetIds[rq.i - 1]
             /\ rq.pc = "done" => Len(rq.tweetIds) = rq.n

\* a thread of at least two tweets has been posted whole
C10_Witness ==
    \E r \in Reqs :
        /\ req[r].tool = "post_tweet_thread"
        /\ req[r].pc = "done"
        /\ req[r].n >= 2
        /\ Len(req[r].tweetIds) = req[r].n
        /\ req[r].parents[2] = req[r].tweetIds[1]

\* the platform post call of request r settles with an error in this step
PostFails(r) ==
    /\ req[r].pc = "post"
    /\ req'[r] # req[r]
    /\ nextTweetId' = nextTweetId

\* C11: when the k-th tweet of a thread fails at the post call, the request fails
\* with that error, no later tweet is attempted and the k-1 identifiers produced so
\* far stay as they are.
C11_ThreadStopsAtFailure ==
    [][\A r \in Reqs :
         (req[r].tool = "post_tweet_thread" /\ PostFails(r)) =>
            /\ req'[r].pc = "failed"
            /\ req'[r].err \in PostErrors
            /\ req'[r].tweetIds = req[r].tweetIds
            /\ Len(req[r].tweetIds) = req[r].i - 1]_vars

\* C12: handleOncePostTweet returns to its caller only with the identifier of a
\* tweet the platform created: a post that failed is never handed on as posted.
C12_FailedPostNotReturned ==
    \A r \in Reqs :
        \A k \in 1..Len(req[r].tweetIds) : req[r].tweetIds[k] # NoId

\* handleUploadMedia of request r returns in this step
UploadsReturn(r) == req[r].pc = "media" /\ req'[r].pc # "media"

\* C13: when media was supplied and no upload succeeded, the operation fails with
\* the invalid-media error, no post call is made and the delay cache is untouched;
\* the post call is made only with at least one uploaded identifier.
C13_NoMediaNoPost ==
    [][\A r \in Reqs :
         /\ UploadsReturn(r) =>
               \/ /\ req'[r].pc = "post"
                  /\ Len(req'[r].mediaIds) > 0
                  /\ \E k \in DOMAIN req'[r].tried : req'[r].tried[k].ok
               \/ /\ req'[r].pc = "failed"
                  /\ req'[r].err = "InvalidParams: Invalid media"
                  /\ \A k \in DOMAIN req[r].tried : ~req[r].tried[k].ok
                  /\ req[r].mediaIds = << >>
                  /\ userDelayCache' = userDelayCache
                  /\ nextTweetId' = nextTweetId
         /\ req[r].pc = "failed" => req'[r] = req[r]]_vars

\* an operation has failed because none of its media could be uploaded
C13_Witness ==
    \E r \in Reqs :
        /\ req[r].pc = "failed"
        /\ req[r].err = "InvalidParams: Invalid media"
        /\ req[r].tweetIds = << >>

\* the identifiers of the uploads that succeeded, in upload order
Uploaded(tried) ==
    LET good == SelectSeq(tried, LAMBDA e : e.ok)
    IN [k \in 1..Len(good) |-> good[k].item]

\* C14: a failed upload does not stop the loop: the items are attempted one after
\* another in the order of the plan, and the post call carries exactly the
\* identifiers of the uploads that succeeded, in upload order.
C14_FailedUploadSkipped ==
    \A r \in Reqs :
        LET rq == req[r]
            plan == UploadPlan(rq.shape)
        IN /\ rq.pc = "media" =>
                 /\ Len(rq.tried) = rq.up - 1
                 /\ rq.up <= Len(plan)
                 /\ \A k \in DOMAIN rq.tried : rq.tried[k].item = plan[k]
                 /\ rq.mediaIds = Uploaded(rq.tried)
           /\ (rq.pc = "post" /\ plan # << >>) =>
                 /\ Len(rq.tried) = Len(plan)
                 /\ \A k \in DOMAIN rq.tried : rq.tried[k].item = plan[k]
                 /\ rq.mediaIds = Uploaded(rq.tried)
                 /\ rq.mediaIds # << >>

\* a post call issued after an upload failed and a later one succeeded
C14_Witness ==
    \E r \in Reqs :
        /\ req[r].pc = "post"
        /\ \E j, k \in DOMAIN req[r].tried :
              j < k /\ ~req[r].tried[j].ok /\ req[r].tried[k].ok

\* C15: only the first 4 images and the first video are ever handed to uploadMedia,
\* however many were supplied.
C15_UploadsTruncated ==
    \A r \in Reqs :
        \A k \in DOMAIN req[r].tried :
            req[r].tried[k].item \in
                {<<"image", j>> : j \in 1..4} \cup {<<"video", 1>>}

\* a post call issued for a tweet that came with more than 4 images and more than
\* 1 video: 4 images and 1 video were tried
C15_Witness ==
    \E r \in Reqs :
        /\ req[r].pc = "post"
        /\ req[r].shape.images > 4
        /\ req[r].shape.videos > 1
        /\ Len(req[r].tried) = 5

\* C16: a post call carries at most 4 media identifiers and never images together
\* with a video.
C16_ImagesOrVideo ==
    \A r \in Reqs :
        req[r].pc = "post" =>
            /\ Len(req[r].mediaIds) <= 4
            /\ ~\E j, k \in DOMAIN req[r].mediaIds :
                   req[r].mediaIds[j][1] = "image" /\ req[r].mediaIds[k][1] = "video"

\* C17: right after /expired_token for an identity, /get_token_cache for that
\* identity answers exists = false, whatever entry the cache held before.
C17_ExpiredThenAbsent ==
    [][\A id \in inputs.expired :
         ExpiredToken(id[1], id[2]) =>
            ~getUserTokenCacheStatus(tokenCache', id[1], id[2], now').exists]_vars

\* a request is using a token resolved for its identity, and the entry of that
\* identity is gone from the cache: /expired_token removed an existing entry
C17_Witness ==
    \E r \in Reqs :
        /\ req[r].pc = "post"
        /\ Truthy(req[r].user) /\ Truthy(req[r].server)
        /\ ~getUserTokenCacheStatus(tokenCache, req[r].user, req[r].server, now).exists

\* C18 as stated: in every interleaving, a successful post never moves the
\* nextSendTime stored for its identity backwards.
C18_NextSendTimeMonotone ==
    [][\A r \in Reqs :
         (PostSucceeds(r) /\ userDelayCache[KeyOf(req[r])].present)
            => userDelayCache'[KeyOf(req[r])].nextSendTime
                  >= userDelayCache[KeyOf(req[r])].nextSendTime]_vars

\* C18 amended: a successful post never moves the stored nextSendTime backwards
\* when its request consulted the gate after the previous send was recorded, that
\* is, when the nextSendTime it saw at the gate is the one still stored.
C18_MonotoneAfterGate ==
    [][\A r \in Reqs :
         (/\ PostSucceeds(r)
          /\ userDelayCache[KeyOf(req[r])].present
          /\ req[r].gateSeen = userDelayCache[KeyOf(req[r])].nextSendTime)
            => /\ userDelayCache'[KeyOf(req[r])].present
               /\ userDelayCache'[KeyOf(req[r])].nextSendTime
                     > userDelayCache[KeyOf(req[r])].nextSendTime]_vars

\* a request that saw the nextSendTime recorded by the other, finished, request has
\* posted, and the nextSendTime stored now is at least a second later
C18_Witness ==
    \E r \in Reqs :
        /\ Len(req[r].tweetIds) = 1
        /\ req[r].gateSeen > 0
        /\ userDelayCache[KeyOf(req[r])].present
        /\ userDelayCache[KeyOf(req[r])].nextSendTime >= req[r].gateSeen + 1000
        /\ \A q \in Reqs \ {r} : req[q].pc = "done" /\ Len(req[q].tweetIds) = 1

\* C19: two requests whose (user_id, server_id) pairs differ never hold the same
\* access token taken from the token cache.
C19_NoTokenAcrossIdentities ==
    \A r, q \in Reqs :
        (/\ <<req[r].user, req[r].server>> # <<req[q].user, req[q].server>>
         /\ req[r].client > HeaderToken
         /\ req[q].client > HeaderToken)
            => req[r].client # req[q].client

\* C20: a credential refresh that fails ends the operation with an authentication
\* failure: nothing is uploaded or posted afterwards, the caches and the delay
\* state stay as they were, and the refresh is not tried again.
C20_RefreshFailureAborts ==
    [][\A r \in Reqs :
         /\ req[r].pc = "token" => req'[r].refreshes = req[r].refreshes
         /\ (req[r].pc = "token" /\ req'[r].pc = "failed") =>
               /\ req'[r].err = "AuthenticationFailure"
               /\ req'[r].tweetIds = req[r].tweetIds
               /\ userDelayCache' = userDelayCache
               /\ tokenCache' = tokenCache
               /\ nextTweetId' = nextTweetId
         /\ (req[r].pc = "failed" /\ req[r].err = "AuthenticationFailure") =>
               req'[r] = req[r]]_vars

\* a thread whose first tweet was posted and whose second tweet found the cached
\* token expired: the second refresh failed and the thread stopped there
C20_Witness ==
    \E r \in Reqs :
        /\ req[r].pc = "failed"
        /\ req[r].err = "AuthenticationFailure"
        /\ req[r].refreshes = 2
        /\ Len(req[r].tweetIds) = 1

\* C21: a request that finds the gate closed does not fail because of it. It
\* suspends, and the step that ends the suspension goes to credential resolution
\* without consulting the gate again; credential resolution of a post never starts
\* before the nextSendTime the request saw; and every suspended request whose
\* wake-up time lies within the modelled horizon eventually resumes.
C21_ClosedGateSuspendsOnce ==
    /\ [][\A r \in Reqs :
            (req[r].pc = "waiting" /\ req'[r] # req[r]) =>
               /\ req'[r].pc # "waiting"
               /\ req'[r].resolves = req[r].resolves + 1
               /\ req'[r].gateSeen = req[r].gateSeen
               /\ req'[r].pc = "failed" => req'[r].err = "InvalidParams"]_vars
    /\ [](\A r \in Reqs :
            (req[r].phase = "once" /\ req[r].pc \in {"token", "config", "media", "post"})
               => now >= req[r].gateSeen)
    /\ \A r \in Reqs :
          (req[r].pc = "waiting" /\ req[r].wakeAt <= MaxTicks * TickMs)
             ~> (req[r].pc # "waiting")

\* a request that was suspended has resumed and is refreshing its credential
C21_Witness ==
    \E r \in Reqs :
        /\ req[r].pc = "token"
        /\ req[r].gateSeen > 0
        /\ req[r].wakeAt >= req[r].gateSeen
        /\ now >= req[r].wakeAt

\* C22: while no delay entry is stored for an identity the gate answers canSend,
\* and a request of that identity that arrives then goes on without suspending.
C22_NoEntryNoWait ==
    [][/\ \A id \in Identities :
            ~userDelayCache[cacheKey(id[1], id[2])].present
               => checkUserCanSend(userDelayCache, id[1], id[2], now).canSend
       /\ \A r \in Reqs :
            (/\ req[r].pc = "idle" /\ req'[r].pc # "idle"
             /\ ~userDelayCache[KeyOf(req'[r])].present)
               => req'[r].pc # "waiting" /\ req'[r].wakeAt = 0]_vars

\* the identity has posted and its entry has been cleared since; another request of
\* the identity found no entry at the gate and has issued its post call at once
C22_Witness ==
    \E r, q \in Reqs :
        /\ req[q].pc = "done" /\ Len(req[q].tweetIds) = 1
        /\ req[r].user = req[q].user /\ req[r].server = req[q].server
        /\ req[r].pc = "post"
        /\ req[r].gateSeen = 0 /\ req[r].wakeAt = 0
        /\ ~userDelayCache[KeyOf(req[r])].present

\* C23: the gate is per identity. A recorded send or a /clear_delay of one identity
\* leaves the delay entry of every other identity as it was, and a request is
\* suspended only when a request of its own identity has posted.
C23_GatePerIdentity ==
    [][/\ \A r \in Reqs : \A id \in Identities :
            (PostSucceeds(r) /\ id # <<req[r].user, req[r].server>>)
               => userDelayCache'[cacheKey(id[1], id[2])]
                     = userDelayCache[cacheKey(id[1], id[2])]
       /\ \A k, id \in Identities :
            (ClearDelay(k[1], k[2]) /\ id # k)
               => userDelayCache'[cacheKey(id[1], id[2])]
                     = userDelayCache[cacheKey(id[1], id[2])]
       /\ \A r \in Reqs :
            (req[r].pc # "waiting" /\ req'[r].pc = "waiting")
               => \E q \in Reqs :
                     /\ req'[q].user = req'[r].user /\ req'[q].server = req'[r].server
                     /\ req'[q].tweetIds # << >>]_vars

\* C24: what clearUserTokenCache and clearUserDelay would return for an identity
\* now is true exactly when an entry of that identity is stored now, and after
\* either of them no entry of the identity is stored.
C24_DeletedIffPresent ==
    \A id \in Identities :
        LET key == cacheKey(id[1], id[2]) IN
        /\ clearUserTokenCacheDeleted(tokenCache, id[1], id[2]) = tokenCache[key].present
        /\ clearUserDelayDeleted(userDelayCache, id[1], id[2])
              = userDelayCache[key].present
        /\ ~clearUserTokenCache(tokenCache, id[1], id[2])[key].present
        /\ ~DeleteKey(userDelayCache, key)[key].present

\* C25: of the errors that end a tool call only the platform's rate-limit error is
\* answered as a text result; every other error is thrown as a protocol fault.
C25_OnlyRateLimitIsSoft ==
    \A r \in Reqs :
        req[r].pc = "failed" =>
            (~handleError(req[r].err).thrown <=> req[r].err = "RateLimitExceeded")

\* post_tweet of request r is on its way to PostTweetSchema.safeParse with a
\* payload that does not pass it
InvalidPayloadPending(rq) ==
    /\ rq.tool = "post_tweet"
    /\ rq.phase # "final"
    /\ ~rq.shape.valid
    /\ rq.pc \in {"waiting", "token", "config"}

\* C26: a post_tweet whose payload fails validation ends with the invalid-parameters
\* error at the validation step: it never reaches a media upload or the post call,
\* and neither the delay cache nor the tweets change.
C26_InvalidPayloadStops ==
    [][\A r \in Reqs :
         /\ (req[r].pc = "idle" /\ req'[r].tool = "post_tweet" /\ req'[r].phase # "final"
             /\ ~req'[r].shape.valid) =>
               /\ InvalidPayloadPending(req'[r])
                     \/ (req'[r].pc = "failed" /\ req'[r].err = "InvalidParams")
               /\ userDelayCache' = userDelayCache
         /\ (InvalidPayloadPending(req[r]) /\ req'[r] # req[r]) =>
               /\ \/ InvalidPayloadPending(req'[r])
                  \/ /\ req'[r].pc = "failed"
                     /\ req'[r].err = IF req[r].pc = "token" THEN "AuthenticationFailure"
                                      ELSE "InvalidParams"
               /\ req'[r].tweetIds = << >>
               /\ userDelayCache' = userDelayCache
               /\ nextTweetId' = nextTweetId]_vars

\* an invalid post_tweet whose credential was refreshed and stored, and which then
\* failed validation
C26_Witness ==
    \E r \in Reqs :
        /\ req[r].tool = "post_tweet"
        /\ req[r].pc = "failed"
        /\ req[r].err = "InvalidParams"
        /\ req[r].refreshes = 1
        /\ tokenCache[KeyOf(req[r])].present

\* C27: the first platform post call of a thread carries no reply reference.
C27_FirstTweetNoParent ==
    \A r \in Reqs :
        req[r].tool = "post_tweet_thread" =>
            /\ (req[r].pc = "post" /\ req[r].i = 1) => req[r].replyUsed = 0
            /\ Len(req[r].parents) >= 1 => req[r].parents[1] = 0

\* C28: nothing ends or shortens a pacing wait. While a request is suspended its
\* wake-up time, fixed when it found the gate closed, does not change, whatever
\* /clear_delay or another request's recorded send does to the delay cache, and
\* the request leaves the suspension only at or after that time.
C28_WaitNotCancelled ==
    [][\A r \in Reqs :
         req[r].pc = "waiting" =>
            /\ req'[r].pc = "waiting" => req'[r] = req[r]
            /\ req'[r].pc # "waiting" => now >= req[r].wakeAt]_vars

\* a request is still suspended for the time it computed although another request's
\* send has been recorded since and moved the stored nextSendTime
C28_Witness ==
    \E r \in Reqs :
        /\ req[r].pc = "waiting"
        /\ now < req[r].wakeAt
        /\ userDelayCache[KeyOf(req[r])].present
        /\ userDelayCache[KeyOf(req[r])].nextSendTime # req[r].gateSeen

\* C29: refreshes of one identity are not shared. A credential resolution that
\* finds no unexpired entry starts a token exchange of its own, whether or not
\* another request's exchange is in flight; when an exchange returns, its request
\* uses the access token of its own exchange and the cache entry is overwritten
\* with it, so the cache holds the result of the refresh that returned last.
C29_RefreshNotShared ==
    [][\A r \in Reqs :
         /\ (/\ req'[r].resolves > req[r].resolves
             /\ ~CacheUsable(tokenCache[KeyOf(req'[r])], now)) =>
               /\ req'[r].pc = "token"
               /\ req'[r].refreshes = req[r].refreshes + 1
         /\ (RefreshReturns(r) /\ req'[r].pc # "failed") =>
               /\ req'[r].client = req[r].resp.access_token
               /\ tokenCache'[KeyOf(req[r])].present
               /\ tokenCache'[KeyOf(req[r])].access_token = req[r].resp.access_token
         /\ (TokenEndpointSucceeds(r) /\ req'[r] # req[r]) =>
               \A q \in Reqs : req'[r].resp.access_token
                                  \notin {req[q].resp.access_token, req[q].client}]_vars

\* two requests of one identity have each made one refresh and hold different
\* access tokens; the cache holds the token that was issued first, whose refresh
\* returned last
C29_Witness ==
    \E r, q \in Reqs :
        /\ req[r].user = req[q].user /\ req[r].server = req[q].server
        /\ req[r].refreshes = 1 /\ req[q].refreshes = 1
        /\ req[r].client > HeaderToken /\ req[q].client > req[r].client
        /\ tokenCache[KeyOf(req[r])].present
        /\ tokenCache[KeyOf(req[r])].access_token = req[r].client

\* C30: every refresh propagates the refresh token of its own exchange, and a
\* propagation call that lands overwrites what the configuration store holds for
\* the identity, whichever token that is: the call that lands last wins.
C30_LastPropagationWins ==
    [][/\ \A m \in cfgInFlight' \ cfgInFlight :
            /\ m.rt = req'[m.owner].resp.refresh_token
            /\ m.rt = issued'
       /\ \A m \in cfgInFlight \ cfgInFlight' :
            LET held == configStore[m.url][<<m.user, m.server>>]
                holds == configStore'[m.url][<<m.user, m.server>>]
            IN /\ holds \in {m.rt, held}
               /\ (inputs.stores = {TRUE} /\ m.rt # NoValue) => holds = m.rt
       /\ \A u \in TargetUrls, id \in Identities :
            configStore'[u][id] # configStore[u][id]
               => \E m \in cfgInFlight \ cfgInFlight' :
                     /\ m.url = u /\ <<m.user, m.server>> = id
                     /\ m.rt = configStore'[u][id]]_vars

\* both refreshes of the identity have propagated, nothing is in flight, and no
\* store holds the refresh token the platform issued last: every store holds the
\* token of the earlier exchange
C30_Witness ==
    /\ cfgInFlight = {}
    /\ issued = 2
    /\ \A r \in Reqs : req[r].refreshes = 1 /\ req[r].pc \notin {"token", "config"}
    /\ \E id \in Identities :
          /\ \E u \in TargetUrls : configStore[u][id] # NoValue
          /\ \A u \in TargetUrls :
                configStore[u][id] # NoValue => configStore[u][id] < issued

\* C31: the delay entry of an identity is overwritten by every successful post as
\* it completes, whatever was stored: after the post the entry is the time of
\* completion plus the delay drawn for that post, so the entry is the one written
\* by the post that completed last.  Nothing but a successful post or /clear_delay
\* changes the delay cache.
C31_LastCompletedPostWins ==
    [][/\ \A r \in Reqs :
            PostSucceeds(r) =>
               LET e == userDelayCache'[KeyOf(req[r])]
               IN /\ e.present
                  /\ e.delaySeconds \in MIN_DELAY_SECONDS..MAX_DELAY_SECONDS
                  /\ e.nextSendTime = now + e.delaySeconds * MsPerSecond
       /\ userDelayCache' # userDelayCache =>
            \/ \E r \in Reqs : PostSucceeds(r)
            \/ \E id \in inputs.cleared : ClearDelay(id[1], id[2])]_vars

\* two requests of one identity passed the gate while no entry was stored, both
\* have posted, and the entry stored is the one written just now with the shortest
\* delay
C31_Witness ==
    \E r, q \in Reqs :
        /\ r # q
        /\ KeyOf(req[r]) = KeyOf(req[q])
        /\ Len(req[r].tweetIds) = 1 /\ Len(req[q].tweetIds) = 1
        /\ req[r].gateSeen = 0 /\ req[q].gateSeen = 0
        /\ userDelayCache[KeyOf(req[r])].present
        /\ userDelayCache[KeyOf(req[r])].nextSendTime = now + MIN_DELAY_SECONDS * MsPerSecond

\* C32: in a thread posted with nothing else going on for its identity, the first
\* tweet is not suspended; the step in which tweet i succeeds suspends the request
\* for tweet i+1 until the nextSendTime just stored; and the post call of tweet
\* i+1 is issued no earlier than that nextSendTime.  Every tweet after the first
\* thus takes one pacing wait, N-1 for a thread of N tweets.
C32_ThreadWaitsBetweenTweets ==
    [][\A r \in Reqs :
         LET e == userDelayCache[KeyOf(req[r])]
             e2 == userDelayCache'[KeyOf(req[r])]
         IN req[r].tool = "post_tweet_thread" =>
              /\ req[r].pc = "waiting" => req[r].i >= 2
              /\ (req[r].pc = "post" /\ req[r].i >= 2) =>
                    /\ e.present
                    /\ req[r].issuedAt >= e.nextSendTime
                    /\ req[r].wakeAt >= e.nextSendTime
              /\ (PostSucceeds(r) /\ req[r].i < req[r].n) =>
                    /\ req'[r].pc = "waiting"
                    /\ req'[r].i = req[r].i + 1
                    /\ req'[r].wakeAt = e2.nextSendTime
                    /\ req'[r].wakeAt = now + e2.delaySeconds * MsPerSecond]_vars

\* the second tweet of a thread has been posted after its pacing wait
C32_Witness ==
    \E r \in Reqs :
        /\ req[r].tool = "post_tweet_thread"
        /\ Len(req[r].tweetIds) = 2
        /\ req[r].pc = "done"
        /\ userDelayCache[KeyOf(req[r])].present

\* C33: a refresh that was in flight when /expired_token removed the entry of its
\* identity does not put an entry back when it returns.
C33_InFlightRefreshKeepsCacheEmpty ==
    [][\A r \in Reqs :
         (RefreshReturns(r) /\ req[r].invalidated)
            => ~tokenCache'[KeyOf(req[r])].present]_vars

\* C34: every entry of the delay cache belongs to an identity whose user_id and
\* server_id are both present, and a request lacking either id leaves the delay
\* cache as it is when its post succeeds.
C34_DelayOnlyForIdentities ==
    [][/\ \A id \in Identities :
            userDelayCache[cacheKey(id[1], id[2])].present
               => Truthy(id[1]) /\ Truthy(id[2])
       /\ \A r \in Reqs :
            (PostSucceeds(r) /\ ~(Truthy(req[r].user) /\ Truthy(req[r].server)))
               => userDelayCache' = userDelayCache]_vars

\* C35: a refresh that fails leaves the token cache as it was: no entry is created
\* and an expired entry of the identity stays, unmodified.
C35_FailedRefreshKeepsCache ==
    [][\A r \in Reqs :
         (req[r].pc = "token" /\ req'[r].pc = "failed")
            => /\ tokenCache' = tokenCache
               /\ req'[r].client = req[r].client]_vars

\* a refresh failed while the expired entry of an earlier refresh was stored; the
\* entry is still there
C35_Witness ==
    \E r \in Reqs :
        /\ req[r].pc = "failed"
        /\ req[r].err = "AuthenticationFailure"
        /\ tokenCache[KeyOf(req[r])].present
        /\ tokenCache[KeyOf(req[r])].expires_at <= now

\* C36: the access token of the client a request works with is the token of the
\* unexpired cache entry of its key, taken when the credential was resolved, or
\* the token returned by the refresh the request made itself; it is never the
\* access_token of the caller's headers.
C36_ClientTokenFromCacheOrRefresh ==
    [][\A r \in Reqs :
         /\ (req'[r].resolves > req[r].resolves /\ req'[r].pc # "token") =>
               LET cachedToken == tokenCache[KeyOf(req'[r])]
               IN /\ cachedToken.present /\ cachedToken.expires_at > now
                  /\ req'[r].client = cachedToken.access_token
         /\ (RefreshReturns(r) /\ req'[r].pc # "failed") =>
               req'[r].client = req[r].resp.access_token
         /\ req'[r].pc \in {"media", "post", "profile"} =>
               /\ req'[r].client # HeaderAccessToken
               /\ req'[r].client > 0]_vars

\* the second tweet of a thread is being posted with the cached token of the
\* refresh made for the first
C36_Witness ==
    \E r \in Reqs :
        /\ req[r].pc = "post"
        /\ req[r].i = 2
        /\ req[r].resolves = 2 /\ req[r].refreshes = 1
        /\ req[r].client = tokenCache[KeyOf(req[r])].access_token

\* C37: an entry written from a response with a positive expires_in expires
\* expires_in seconds after the clock reading getUserClient took in the slice that
\* sent the refresh request, however late the response came; getUserClient uses
\* an entry only before its expires_at, and getUserTokenCacheStatus reports it as
\* unexpired only before its expires_at.
C37_UnexpiredOnlyWithinLifetime ==
    [][\A r \in Reqs :
         /\ (RefreshReturns(r) /\ req[r].resp.expires_in > 0) =>
               LET e == tokenCache'[KeyOf(req[r])]
               IN /\ e.present
                  /\ req[r].t0 <= now
                  /\ e.expires_at = req[r].t0 + req[r].resp.expires_in * MsPerSecond
                  /\ e.expires_at <= now + req[r].resp.expires_in * MsPerSecond
         /\ (req'[r].resolves > req[r].resolves /\ req'[r].pc # "token") =>
               now < tokenCache[KeyOf(req'[r])].expires_at
         /\ \A t \in {now, now'} :
               LET st == getUserTokenCacheStatus(tokenCache', req[r].user, req[r].server, t)
               IN (st.exists /\ ~st.is_expired) => t < st.expires_at]_vars

\* the entry of a refresh sent at time 0 with expires_in 1 is found expired at
\* time 1000, and the request refreshes again
C37_Witness ==
    \E r \in Reqs :
        /\ req[r].pc = "token"
        /\ req[r].refreshes = 2
        /\ req[r].t0 = now
        /\ tokenCache[KeyOf(req[r])].present
        /\ tokenCache[KeyOf(req[r])].expires_at = 1 * MsPerSecond
        /\ now = tokenCache[KeyOf(req[r])].expires_at

\* C38: post_tweet_thread checks the whole tweets array first.  A call whose array
\* has an invalid tweet fails with invalid parameters in its first slice, without
\* a pacing wait, a credential resolution, an upload or a post and with both caches
\* as they were; a thread that gets past its first slice has only valid tweets.
C38_ThreadValidatedFirst ==
    /\ [](\A r \in Reqs, call \in ThreadCalls :
            ~call.valid =>
               LET w == handlePostTweetThread(World(r), call, InvalidShape, now)
               IN /\ w.rq.pc = "failed" /\ w.rq.err = "InvalidParams"
                  /\ w.tc = tokenCache /\ w.dc = userDelayCache
                  /\ w.rq.resolves = req[r].resolves
                  /\ w.rq.refreshes = req[r].refreshes
                  /\ w.rq.tweetIds = req[r].tweetIds)
    /\ [][\A r \in Reqs :
            (req[r].pc = "idle" /\ req'[r].tool = "post_tweet_thread") =>
               \/ /\ req'[r].pc = "failed" /\ req'[r].err = "InvalidParams"
                  /\ req'[r].resolves = 0 /\ req'[r].refreshes = 0
                  /\ req'[r].tweetIds = << >>
                  /\ UNCHANGED <<tokenCache, userDelayCache, cfgInFlight, issued, nextTweetId>>
               \/ /\ req'[r].pc # "failed"
                  /\ req'[r].n > 0 => req'[r].shape.valid]_vars

\* a thread of two tweets was refused for its parameters before anything was done
C38_Witness ==
    \E r \in Reqs :
        /\ req[r].tool = "post_tweet_thread"
        /\ req[r].n = 2
        /\ req[r].pc = "failed" /\ req[r].err = "InvalidParams"
        /\ req[r].resolves = 0
        /\ req[r].gateSeen = 0
        /\ tokenCache[KeyOf(req[r])] = None
        /\ userDelayCache[KeyOf(req[r])] = None
        /\ nextTweetId = 0

\* C39: post_tweet answers with its success text only after its post call returned
\* a tweet id, the credential was resolved a second time and the profile lookup
\* returned.  When the second credential resolution or the profile lookup fails
\* the caller gets that error, while the tweet stays published and the
\* nextSendTime recorded for it stays in the delay cache.
C39_SuccessNeedsAllThreeSteps ==
    [][\A r \in Reqs :
         req[r].tool = "post_tweet" =>
            /\ (req[r].pc # "done" /\ req'[r].pc = "done") =>
                  /\ req[r].pc = "profile" /\ req[r].phase = "final"
                  /\ req'[r].resolves = 2
                  /\ req'[r].client > 0
                  /\ Len(req'[r].tweetIds) = 1 /\ req'[r].tweetIds[1] # NoId
            /\ (req[r].pc \in {"token", "config", "profile"} /\ req[r].phase = "final"
                   /\ req'[r].pc = "failed") =>
                  /\ req'[r].err # "none"
                  /\ Len(req[r].tweetIds) = 1 /\ req[r].tweetIds[1] # NoId
                  /\ req'[r].tweetIds = req[r].tweetIds
                  /\ nextTweetId' = nextTweetId
                  /\ userDelayCache' = userDelayCache
            /\ PostSucceeds(r) =>
                  /\ userDelayCache'[KeyOf(req[r])].present
                  /\ userDelayCache'[KeyOf(req[r])].nextSendTime > now
                  /\ req'[r].phase = "final"
                  /\ req'[r].pc # "done"]_vars

\* the tweet of a post_tweet call is published and its nextSendTime recorded, and
\* the call has failed because the token expired before the second credential
\* resolution and the refresh was refused
C39_Witness ==
    \E r \in Reqs :
        /\ req[r].tool = "post_tweet"
        /\ req[r].pc = "failed" /\ req[r].err = "AuthenticationFailure"
        /\ req[r].phase = "final"
        /\ Len(req[r].tweetIds) = 1
        /\ nextTweetId = 1
        /\ userDelayCache[KeyOf(req[r])].present
        /\ userDelayCache[KeyOf(req[r])].nextSendTime > now

====
